---- MODULE Spec2Model ----
(***************************************************************************)
(* A model of the arena_api binding layer (the Nodemap wrapper and the     *)
(* _xFeaturestream forwarding class) and of the two-thread examples        *)
(* py_save_multithreading and py_enumeration_handlingdisconnections.       *)
(*                                                                         *)
(* Python str values are sequences of code points, bytes values are        *)
(* sequences of octets.  A Python value is a record                        *)
(*   [type : its class name, val : Seq(Int), items : Seq(value)]           *)
(* where val carries a scalar (one number, or the code points of a str)    *)
(* and items the elements of a list, tuple or set.                         *)
(***************************************************************************)
EXTENDS Integers, Sequences, FiniteSets, TLC

VARIABLES
    \* ---- _xFeaturestream objects used directly (SpecFS) ----
    xfs,          \* the _xFeaturestream objects created so far
    wrapperLog,   \* the wrapper operations called so far, in order
    fsNativeLog,  \* the native ArenaC calls issued so far, in order
    \* ---- one Nodemap object and its native node map (Spec) ----
    nodes,        \* native node map: sequence of [name, is_feature]
    files,        \* names of the files the native library has written
    DEFAULT_POLL_TIME_MILLISEC,   \* Nodemap attribute
    nodemap_type_name,            \* Nodemap._nodemap_type_name
    lastCall,     \* the last operation on the Nodemap since its native
                  \* node map last changed: operation, argument, outcome
    nativeLog,    \* the native calls that operation issued
    \* ---- py_save_multithreading (SpecSave) ----
    apc,          \* position of the acquisition thread
    acount,       \* its loop index over the acquired buffers
    mpc,          \* position of the main (saving) thread
    buffer_queue, \* queue.Queue shared by the two threads
    is_more_buffers, \* multiprocessing.Value('i', 1)
    buffer,       \* save_image_buffers' local: the buffer just taken
    count,        \* save_image_buffers' local: next file index
    queued,       \* history: the buffer copies put on the queue, in order
    saved,        \* history: the writer.save calls, in order
    \* ---- py_enumeration_handlingdisconnections (SpecEnum) ----
    g_device,     \* global: the device object, [serial, alive]
    g_is_running, \* global
    g_device_serial, \* global
    cv_owner,     \* cv: the thread holding the condition's RLock
    cv_count,     \* cv: how many times the owner has acquired it
    cv_waiters,   \* cv: per thread "no", "waiting" or "notified"
    cv_saved,     \* cv: per waiting thread, the count wait() restores
    epc,          \* position of the enumeration thread
    found_device, \* enumeration_thread's local
    qpc,          \* position of the acquisition (main) thread
    num_images,   \* acquisition_thread's local
    connected,    \* serial numbers of the cameras now on the network
    since_wait,   \* history: what the enumeration thread has done since
                  \* the acquisition thread last began to wait on cv
    resumed       \* history: the acquisition thread has returned from
                  \* cv.wait() and not called start_stream since

fsVars == <<xfs, wrapperLog, fsNativeLog>>
nmVars == <<nodes, files, DEFAULT_POLL_TIME_MILLISEC, nodemap_type_name,
            lastCall, nativeLog>>
mtVars == <<apc, acount, mpc, buffer_queue, is_more_buffers, buffer, count,
            queued, saved>>
enVars == <<g_device, g_is_running, g_device_serial, cv_owner, cv_count,
            cv_waiters, cv_saved, epc, found_device, qpc, num_images,
            connected, since_wait, resumed>>
vars == <<fsVars, nmVars, mtVars, enVars>>

----------------------------------------------------------------------------
(* Bounds *)
MaxCalls == 4      \* calls on _xFeaturestream in one SpecFS behaviour
MaxObjects == 2    \* _xFeaturestream objects in one SpecFS behaviour
MaxLen == 2        \* length of a list/tuple argument of get_node
MaxNodes == 3      \* nodes of the native node map

----------------------------------------------------------------------------
(* Python str and bytes *)

\* str.encode() with the default encoding, UTF-8, of one code point
\* (code points below 2048 suffice for the strings used here).
EncodeCodePoint(c) ==
    IF c < 128 THEN <<c>>
    ELSE <<192 + (c \div 64), 128 + (c % 64)>>

RECURSIVE Encode(_)
Encode(s) ==
    IF s = <<>> THEN <<>>
    ELSE EncodeCodePoint(Head(s)) \o Encode(Tail(s))

\* Python's str ordering: lexicographic on code points.
RECURSIVE StrLess(_, _)
StrLess(a, b) ==
    IF b = <<>> THEN FALSE
    ELSE IF a = <<>> THEN TRUE
    ELSE IF Head(a) # Head(b) THEN Head(a) < Head(b)
    ELSE StrLess(Tail(a), Tail(b))

\* `sub in s` for str
Contains(sub, s) ==
    \E i \in 0..(Len(s) - Len(sub)) :
        \A j \in 1..Len(sub) : s[i + j] = sub[j]

Range(f) == {f[i] : i \in DOMAIN f}

----------------------------------------------------------------------------
(* _xFeaturestream: the forwarding class *)

NativeCall(fn, h, arg) == [fn |-> fn, h |-> h, arg |-> arg]

xFeatureStreamCreate(fresh, ac_nodemap_address) ==
    NativeCall("acFeatureStreamCreate", ac_nodemap_address, <<fresh>>)

xFeatureStreamDestroy(self) ==
    <<NativeCall("acFeatureStreamDestroy", self.ac_featurestream, <<>>)>>

xFeatureStreamSelect(self, feature_name) ==
    <<NativeCall("acFeatureStreamSelect", self.ac_featurestream,
                 Encode(feature_name))>>

xFeatureStreamWrite(self) ==
    <<NativeCall("acFeatureStreamWrite", self.ac_featurestream, <<>>)>>

xFeatureStreamWriteFileName(self, file_name) ==
    <<NativeCall("acFeatureStreamWriteFileName", self.ac_featurestream,
                 Encode(file_name))>>

\* xFeatureStreamRead forwarding to the write entry point
xFeatureStreamRead_Mut(self) ==
    <<NativeCall("acFeatureStreamWrite", self.ac_featurestream, <<>>)>>

xFeatureStreamRead(self) ==
    <<NativeCall("acFeatureStreamRead", self.ac_featurestream, <<>>)>>

xFeatureStreamReadFileName(self, file_name) ==
    <<NativeCall("acFeatureStreamReadFileName", self.ac_featurestream,
                 Encode(file_name))>>

\* The handle acFeatureStreamCreate stores through phFeatureStream: a
\* handle no earlier call of the log has returned.
FreshHandle(log) ==
    1 + Cardinality({i \in DOMAIN log : log[i].fn = "acFeatureStreamCreate"})

\* _xFeaturestream.__init__ after the address check: the new object.
xFeaturestreamInit(log, ac_nodemap_address) ==
    [ac_featurestream_address |-> FreshHandle(log),
     ac_featurestream |-> FreshHandle(log),
     alive |-> TRUE]

\* Strings passed to the feature stream: "A" and "éA"
FsStrings == {<<65>>, <<233, 65>>}
NodemapAddresses == {0, 7, 8}
StrOps == {"xFeatureStreamSelect", "xFeatureStreamWriteFileName",
           "xFeatureStreamReadFileName"}
NoArgOps == {"xFeatureStreamWrite", "xFeatureStreamRead"}

\* the native calls one wrapper operation issues
Forward(op, self, arg) ==
    CASE op = "xFeatureStreamSelect" -> xFeatureStreamSelect(self, arg)
      [] op = "xFeatureStreamWrite" -> xFeatureStreamWrite(self)
      [] op = "xFeatureStreamWriteFileName" ->
             xFeatureStreamWriteFileName(self, arg)
      [] op = "xFeatureStreamRead" -> xFeatureStreamRead(self)
      [] op = "xFeatureStreamReadFileName" ->
             xFeatureStreamReadFileName(self, arg)

\* _xFeaturestream(ac_nodemap_address)
FsConstruct(addr) ==
    /\ Len(wrapperLog) < MaxCalls
    /\ Cardinality({i \in DOMAIN wrapperLog : wrapperLog[i].op = "__init__"})
           < MaxObjects
    /\ IF addr = 0
       THEN \* raise TypeError('ac_nodemap_address is None')
            UNCHANGED <<xfs, fsNativeLog>>
       ELSE /\ xfs' = Append(xfs, xFeaturestreamInit(fsNativeLog, addr))
            /\ fsNativeLog' = Append(fsNativeLog,
                   xFeatureStreamCreate(FreshHandle(fsNativeLog), addr))
    /\ wrapperLog' = Append(wrapperLog,
           [op |-> "__init__", obj |-> IF addr = 0 THEN 0 ELSE Len(xfs) + 1,
            arg |-> <<addr>>])

\* obj.<op>(arg) on a live object
FsCall(o, op, arg) ==
    /\ xfs[o].alive
    /\ Len(wrapperLog) < MaxCalls
    /\ fsNativeLog' = fsNativeLog \o Forward(op, xfs[o], arg)
    /\ wrapperLog' = Append(wrapperLog, [op |-> op, obj |-> o, arg |-> arg])
    /\ UNCHANGED xfs

\* the last reference to the object goes away: __del__
FsDel(o) ==
    /\ Len(wrapperLog) < MaxCalls
    /\ xfs[o].alive
    /\ xfs' = [xfs EXCEPT ![o].alive = FALSE]
    /\ fsNativeLog' = fsNativeLog \o xFeatureStreamDestroy(xfs[o])
    /\ wrapperLog' = Append(wrapperLog,
                            [op |-> "__del__", obj |-> o, arg |-> <<>>])

FsInit ==
    /\ xfs = <<>>
    /\ wrapperLog = <<>>
    /\ fsNativeLog = <<>>

FsNext ==
    \/ \E addr \in NodemapAddresses : FsConstruct(addr)
    \/ \E o \in DOMAIN xfs, op \in StrOps, arg \in FsStrings :
           FsCall(o, op, arg)
    \/ \E o \in DOMAIN xfs, op \in NoArgOps : FsCall(o, op, <<>>)
    \/ \E o \in DOMAIN xfs : FsDel(o)

----------------------------------------------------------------------------
(* Python values *)

PyStr(s) == [type |-> "str", val |-> s, items |-> <<>>]
PyInt(n) == [type |-> "int", val |-> <<n>>, items |-> <<>>]
PyBool(b) == [type |-> "bool", val |-> <<IF b THEN 1 ELSE 0>>, items |-> <<>>]
\* the float n.0
PyFloat(n) == [type |-> "float", val |-> <<n>>, items |-> <<>>]
PyNone == [type |-> "NoneType", val |-> <<>>, items |-> <<>>]
PyList(xs) == [type |-> "list", val |-> <<>>, items |-> xs]
PyTuple(xs) == [type |-> "tuple", val |-> <<>>, items |-> xs]
PySet(xs) == [type |-> "set", val |-> <<>>, items |-> xs]

\* isinstance(v, cls): bool is a subclass of int
IsInstance(v, cls) ==
    \/ v.type = cls
    \/ cls = "int" /\ v.type = "bool"

----------------------------------------------------------------------------
(* The native node map behind _xNodemap, and the node wrappers *)

NodemapHandle == 7

NoNode == [hxnode |-> 0, name |-> <<>>]
EmptyDict == [k \in {} |-> NoNode]

\* acNodeMapGetNode: the handle of the node of that name, NULL when the
\* node map has none.  A node's handle is its position in the node map.
xNodeMapGetNode(nm, node_name) ==
    IF \E i \in DOMAIN nm : nm[i].name = node_name
    THEN CHOOSE i \in DOMAIN nm : nm[i].name = node_name
    ELSE 0

xNodeMapGetNumNodes(nm) == Len(nm)

xNodeMapGetNodeByIndex(nm, node_index) == node_index + 1

\* _node.Node(hxnode).is_feature
IsFeature(nm, hxnode) == nm[hxnode].is_feature

\* _node_helpers.cast_from_general_node_to_specific_node_type(Node(hxnode))
SpecificNode(nm, hxnode) == [hxnode |-> hxnode, name |-> nm[hxnode].name]

\* The native string nodes read for the default file name.
S_DeviceModelName ==
    <<68, 101, 118, 105, 99, 101, 77, 111, 100, 101, 108, 78, 97, 109, 101>>
S_DeviceSerialNumber ==
    <<68, 101, 118, 105, 99, 101, 83, 101, 114, 105, 97, 108, 78, 117, 109,
      98, 101, 114>>
S_DeviceUserID ==
    <<68, 101, 118, 105, 99, 101, 85, 115, 101, 114, 73, 68>>

\* acNodeMapGetStringValue: model "P", serial number "1", user id "U"
xNodeMapGetStringValue(node_name) ==
    CASE node_name = S_DeviceModelName -> <<80>>
      [] node_name = S_DeviceSerialNumber -> <<49>>
      [] node_name = S_DeviceUserID -> <<85>>
      [] OTHER -> <<>>

\* acFeatureStreamWriteFileName: the file exists afterwards
NativeWriteFile(fs, file_name_p) == fs \cup {file_name_p}

\* acFeatureStreamReadFileName: the node maps the read may leave behind.
\* Values streamed in from an existing file may change which nodes are
\* available; a missing file changes nothing.
NativeReadResults(nm, fs, file_name_p) ==
    IF file_name_p \in fs
    THEN {m \in [DOMAIN nm -> [name : Range([i \in DOMAIN nm |-> nm[i].name]),
                               is_feature : BOOLEAN]] :
              \A i \in DOMAIN nm : m[i].name = nm[i].name}
    ELSE {nm}

----------------------------------------------------------------------------
(* Nodemap *)

\* the outcome of a call: the exception raised ("" when it returns), the
\* value returned, and the native calls issued
Outcome(exc, shape, node, dict, names, log) ==
    [raise |-> exc, shape |-> shape, node |-> node, dict |-> dict,
     names |-> names, log |-> log]

Raise(exc, log) == Outcome(exc, "none", NoNode, EmptyDict, <<>>, log)
ReturnNone(log) == Outcome("", "none", NoNode, EmptyDict, <<>>, log)
ReturnNode(n, log) == Outcome("", "node", n, EmptyDict, <<>>, log)
ReturnDict(d, log) == Outcome("", "dict", NoNode, d, <<>>, log)
ReturnNames(ns, log) == Outcome("", "list", NoNode, EmptyDict, ns, log)

NmCall(fn, arg) == NativeCall(fn, NodemapHandle, arg)

\* sorted(nodes_names): insertion of each name after the names not above it
RECURSIVE InsertSorted(_, _)
InsertSorted(s, x) ==
    IF s = <<>> THEN <<x>>
    ELSE IF StrLess(x, Head(s)) THEN <<x>> \o s
    ELSE <<Head(s)>> \o InsertSorted(Tail(s), x)

\* the names returned in node-map order
Sorted_Mut(s) == s

RECURSIVE Sorted(_)
Sorted(s) ==
    IF s = <<>> THEN <<>>
    ELSE InsertSorted(Sorted(SubSeq(s, 1, Len(s) - 1)), s[Len(s)])

\* the loop of __get_feature_names from node_index on
RECURSIVE FeatureNamesLoop(_, _, _)
FeatureNamesLoop(nm, node_index, nodes_names) ==
    IF node_index >= xNodeMapGetNumNodes(nm) THEN nodes_names
    ELSE LET hxnode == xNodeMapGetNodeByIndex(nm, node_index)
         IN  FeatureNamesLoop(nm, node_index + 1,
                 IF IsFeature(nm, hxnode)
                 THEN Append(nodes_names, SpecificNode(nm, hxnode).name)
                 ELSE nodes_names)

FeatureNamesLog(nm) ==
    <<NmCall("xNodeMapGetNumNodes", <<>>)>> \o
    [i \in 1..xNodeMapGetNumNodes(nm) |->
        NmCall("xNodeMapGetNodeByIndex", <<i - 1>>)]

\* Nodemap.__get_feature_names
get_feature_names(nm) ==
    ReturnNames(Sorted(FeatureNamesLoop(nm, 0, <<>>)), FeatureNamesLog(nm))

\* Nodemap.__get_node.  When the lookup fails the suggestions are computed
\* from feature_names; with or without suggestions the exception is a
\* ValueError, the two differ in their message only.
get_one_node(nm, node_name) ==
    LET hxnode == xNodeMapGetNode(nm, node_name)
        log == <<NmCall("xNodeMapGetNode", node_name)>>
    IN  IF hxnode = 0
        THEN Raise("ValueError", log \o get_feature_names(nm).log)
        ELSE ReturnNode(SpecificNode(nm, hxnode), log)

\* the element check left out
check_nodes_names_Mut(nodes_names) == ""

\* Nodemap.__check__get_nodes_as_dict_input_parameter_nodes_names
check_nodes_names(nodes_names) ==
    IF \E i \in DOMAIN nodes_names : ~IsInstance(nodes_names[i], "str")
    THEN "ValueError"
    ELSE ""

\* the dict rebound instead of updated
DictSet_Mut(d, k, v) == [x \in {k} |-> v]

\* specific_nodes[node_name] = node
DictSet(d, k, v) ==
    [x \in DOMAIN d \cup {k} |-> IF x = k THEN v ELSE d[x]]

\* the loop of __get_nodes_as_dict from element i on
RECURSIVE GetNodesLoop(_, _, _, _, _)
GetNodesLoop(nm, nodes_names, i, specific_nodes, log) ==
    IF i > Len(nodes_names) THEN ReturnDict(specific_nodes, log)
    ELSE LET r == get_one_node(nm, nodes_names[i].val)
         IN  IF r.raise # ""
             THEN Raise(r.raise, log \o r.log)
             ELSE GetNodesLoop(nm, nodes_names, i + 1,
                      DictSet(specific_nodes, nodes_names[i].val, r.node),
                      log \o r.log)

\* Nodemap.__get_nodes_as_dict
get_nodes_as_dict(nm, nodes_names) ==
    IF check_nodes_names(nodes_names) # ""
    THEN Raise(check_nodes_names(nodes_names), <<>>)
    ELSE GetNodesLoop(nm, nodes_names, 1, EmptyDict, <<>>)

\* the exception get_node raises for an argument of an unsupported type
GetNodeBadTypeError == "ValueError"

\* Nodemap.get_node
get_node(nm, nodes_names) ==
    IF IsInstance(nodes_names, "list")
    THEN get_nodes_as_dict(nm, nodes_names.items)
    ELSE IF IsInstance(nodes_names, "tuple")
    THEN get_nodes_as_dict(nm, nodes_names.items)
    ELSE IF IsInstance(nodes_names, "str")
    THEN get_one_node(nm, nodes_names.val)
    ELSE Raise(GetNodeBadTypeError, <<>>)

\* __getitem__ letting the ValueError of the lookup through
getitem_Mut(nm, key) ==
    IF IsInstance(key, "str")
    THEN get_one_node(nm, key.val)
    ELSE Raise("TypeError", <<>>)

\* Nodemap.__getitem__
getitem(nm, key) ==
    IF IsInstance(key, "str")
    THEN LET r == get_one_node(nm, key.val)
         IN  IF r.raise = "ValueError" THEN Raise("KeyError", r.log) ELSE r
    ELSE Raise("TypeError", <<>>)

\* the check with `< 0` for `<= 0`
check_poll_parameter_Mut(default, elapsed_time_millisec) ==
    LET e == IF elapsed_time_millisec = PyNone THEN default
             ELSE elapsed_time_millisec
    IN  IF ~IsInstance(e, "int") THEN "TypeError"
        ELSE IF e.val[1] < 0 THEN "ValueError"
        ELSE ""

\* Nodemap.__check_poll_parameter_elapsed_time_millisec: the exception
\* raised, "" when the value passes
check_poll_parameter(default, elapsed_time_millisec) ==
    LET e == IF elapsed_time_millisec = PyNone THEN default
             ELSE elapsed_time_millisec
    IN  IF ~IsInstance(e, "int") THEN "TypeError"
        ELSE IF e.val[1] <= 0 THEN "ValueError"
        ELSE ""

\* the value the check returns
poll_parameter(default, elapsed_time_millisec) ==
    IF elapsed_time_millisec = PyNone THEN default ELSE elapsed_time_millisec

\* Nodemap.poll
poll(default, elapsed_time_millisec) ==
    IF check_poll_parameter(default, elapsed_time_millisec) # ""
    THEN Raise(check_poll_parameter(default, elapsed_time_millisec), <<>>)
    ELSE ReturnNone(<<NmCall("xNodeMapPoll",
                        poll_parameter(default, elapsed_time_millisec).val)>>)

S_device_nodemap ==
    <<100, 101, 118, 105, 99, 101, 95, 110, 111, 100, 101, 109, 97, 112>>
S_device_tl_device_nodemap ==
    <<100, 101, 118, 105, 99, 101, 95, 116, 108, 95, 100, 101, 118, 105, 99,
      101, 95, 110, 111, 100, 101, 109, 97, 112>>
S_default_name_nodemap ==
    <<100, 101, 102, 97, 117, 108, 116, 95, 110, 97, 109, 101, 95, 110, 111,
      100, 101, 109, 97, 112>>
S_txt == <<46, 116, 120, 116>>
S_underscore == <<95>>

\* write_streamable_node_values_to: the file name used when None is passed,
\* and the native reads that compute it
default_file_name(nodemap_name) ==
    IF Contains(S_device_nodemap, nodemap_name)
       \/ Contains(S_device_tl_device_nodemap, nodemap_name)
    THEN xNodeMapGetStringValue(S_DeviceSerialNumber) \o S_underscore \o
         xNodeMapGetStringValue(S_DeviceModelName) \o S_underscore \o
         xNodeMapGetStringValue(S_DeviceUserID) \o S_underscore \o
         nodemap_name \o S_txt
    ELSE nodemap_name \o S_txt

default_file_name_log(nodemap_name) ==
    IF Contains(S_device_nodemap, nodemap_name)
       \/ Contains(S_device_tl_device_nodemap, nodemap_name)
    THEN <<NmCall("xNodeMapGetStringValue", S_DeviceModelName),
           NmCall("xNodeMapGetStringValue", S_DeviceSerialNumber),
           NmCall("xNodeMapGetStringValue", S_DeviceUserID)>>
    ELSE <<>>

\* xfeature_stream = _xFeaturestream(self.__xnodemap.h_nodemap.value)
NewFeatureStream == xFeaturestreamInit(<<>>, NodemapHandle)

\* the native calls of a method that creates a feature stream, issues
\* `calls` on it and drops it when it returns
WithFeatureStream(calls) ==
    <<xFeatureStreamCreate(FreshHandle(<<>>), NodemapHandle)>> \o
    calls \o
    xFeatureStreamDestroy(NewFeatureStream)

\* Nodemap.write_streamable_node_values_to
write_streamable_node_values_to(nodemap_name, file_name) ==
    IF file_name = PyNone
    THEN ReturnNone(default_file_name_log(nodemap_name) \o
             WithFeatureStream(xFeatureStreamWriteFileName(
                 NewFeatureStream, default_file_name(nodemap_name))))
    ELSE IF ~IsInstance(file_name, "str")
    THEN Raise("TypeError", <<>>)
    ELSE ReturnNone(WithFeatureStream(xFeatureStreamWriteFileName(
             NewFeatureStream, file_name.val)))

\* read_streamable_node_values_from without its type check
read_streamable_node_values_from_Mut(file_name) ==
    ReturnNone(WithFeatureStream(xFeatureStreamReadFileName(
        NewFeatureStream, file_name.val)))

\* Nodemap.read_streamable_node_values_from
read_streamable_node_values_from(file_name) ==
    IF ~IsInstance(file_name, "str")
    THEN Raise("TypeError", <<>>)
    ELSE ReturnNone(WithFeatureStream(xFeatureStreamReadFileName(
             NewFeatureStream, file_name.val)))

----------------------------------------------------------------------------
(* The calls made on the Nodemap object, and its environment *)

\* node names: "A", "AB", "a"
NodeNames == {<<65>>, <<65, 66>>, <<97>>}
\* elements of the lists and tuples passed to get_node: "A", "a", 7, None
Elements == {PyStr(<<65>>), PyStr(<<97>>), PyInt(7), PyNone}
ElementSeqs == UNION {[1..n -> Elements] : n \in 0..MaxLen}
Scalars == {PyStr(n) : n \in NodeNames} \cup
           {PyInt(7), PyNone, PyFloat(2), PyBool(TRUE)}
GetNodeArgs == Scalars \cup {PyList(xs) : xs \in ElementSeqs}
                       \cup {PyTuple(xs) : xs \in ElementSeqs}
                       \cup {PySet(<<PyStr(<<65>>)>>)}
GetItemKeys == Scalars \cup {PyTuple(<<PyStr(<<65>>)>>)}
PollArgs == {PyNone, PyInt(-1000), PyInt(-1), PyInt(0), PyInt(1), PyInt(500),
             PyInt(1000), PyBool(TRUE), PyBool(FALSE), PyFloat(0),
             PyFloat(500), PyStr(<<49>>), PyList(<<PyInt(500)>>)}
PollDefaults == {PyInt(1000), PyInt(1), PyInt(0), PyInt(-5), PyBool(TRUE),
                 PyFloat(1000), PyStr(<<49>>), PyNone}
\* file names: "é"
FileNameArgs == {PyStr(<<233>>), PyNone, PyInt(7),
                 PyList(<<PyStr(<<233>>)>>)}
TypeNames == {S_default_name_nodemap, S_device_nodemap,
              S_device_tl_device_nodemap}

NodeMaps ==
    {nm \in UNION {[1..n -> [name : NodeNames, is_feature : BOOLEAN]] :
                       n \in 0..MaxNodes} :
        \A i, j \in DOMAIN nm : nm[i].name = nm[j].name => i = j}

NoCall == [op |-> "", arg |-> PyNone, raise |-> "", shape |-> "none",
           node |-> NoNode, dict |-> EmptyDict, names |-> <<>>]

Record(op, arg, r) ==
    /\ lastCall' = [op |-> op, arg |-> arg, raise |-> r.raise,
                    shape |-> r.shape, node |-> r.node, dict |-> r.dict,
                    names |-> r.names]
    /\ nativeLog' = r.log

CallGetNode(a) ==
    /\ Record("get_node", a, get_node(nodes, a))
    /\ UNCHANGED <<nodes, files, DEFAULT_POLL_TIME_MILLISEC,
                   nodemap_type_name>>

CallGetItem(k) ==
    /\ Record("__getitem__", k, getitem(nodes, k))
    /\ UNCHANGED <<nodes, files, DEFAULT_POLL_TIME_MILLISEC,
                   nodemap_type_name>>

CallFeatureNames ==
    /\ Record("feature_names", PyNone, get_feature_names(nodes))
    /\ UNCHANGED <<nodes, files, DEFAULT_POLL_TIME_MILLISEC,
                   nodemap_type_name>>

CallPoll(a) ==
    /\ Record("poll", a, poll(DEFAULT_POLL_TIME_MILLISEC, a))
    /\ UNCHANGED <<nodes, files, DEFAULT_POLL_TIME_MILLISEC,
                   nodemap_type_name>>

\* the file names the native writes of a call log create
WrittenBy(log) ==
    {log[i].arg : i \in {j \in DOMAIN log :
                            log[j].fn = "acFeatureStreamWriteFileName"}}

\* the file names the native reads of a call log open
ReadBy(log) ==
    {log[i].arg : i \in {j \in DOMAIN log :
                            log[j].fn = "acFeatureStreamReadFileName"}}

CallWriteStreamable(f) ==
    LET r == write_streamable_node_values_to(nodemap_type_name, f)
    IN  /\ Record("write_streamable_node_values_to", f, r)
        /\ files' = UNION ({files} \cup
                       {NativeWriteFile(files, n) : n \in WrittenBy(r.log)})
        /\ UNCHANGED <<nodes, DEFAULT_POLL_TIME_MILLISEC, nodemap_type_name>>

CallReadStreamable(f) ==
    LET r == read_streamable_node_values_from(f)
    IN  /\ Record("read_streamable_node_values_from", f, r)
        /\ IF ReadBy(r.log) = {}
           THEN nodes' = nodes
           ELSE \E n \in ReadBy(r.log) :
                    nodes' \in NativeReadResults(nodes, files, n)
        /\ UNCHANGED <<files, DEFAULT_POLL_TIME_MILLISEC, nodemap_type_name>>

\* nodemap.DEFAULT_POLL_TIME_MILLISEC = v
SetDefaultPollTime(v) ==
    /\ DEFAULT_POLL_TIME_MILLISEC' = v
    /\ lastCall' = [NoCall EXCEPT !.op = "set DEFAULT_POLL_TIME_MILLISEC",
                                  !.arg = v]
    /\ nativeLog' = <<>>
    /\ UNCHANGED <<nodes, files, nodemap_type_name>>

\* nodemap._nodemap_type_name = n, set by the object that owns the node map
SetNodemapTypeName(n) ==
    /\ nodemap_type_name' = n
    /\ lastCall' = [NoCall EXCEPT !.op = "set _nodemap_type_name",
                                  !.arg = PyStr(n)]
    /\ nativeLog' = <<>>
    /\ UNCHANGED <<nodes, files, DEFAULT_POLL_TIME_MILLISEC>>

\* a device setting changes and a node becomes available or unavailable
NodeAvailabilityChanges(i) ==
    /\ nodes' = [nodes EXCEPT ![i].is_feature = ~nodes[i].is_feature]
    /\ lastCall' = NoCall
    /\ nativeLog' = <<>>
    /\ UNCHANGED <<files, DEFAULT_POLL_TIME_MILLISEC, nodemap_type_name>>

NmInit ==
    /\ nodes \in NodeMaps
    /\ files = {}
    /\ DEFAULT_POLL_TIME_MILLISEC = PyInt(1000)
    /\ nodemap_type_name = S_default_name_nodemap
    /\ lastCall = NoCall
    /\ nativeLog = <<>>

\* node lookup and the feature list
NodesNext ==
    \/ \E a \in GetNodeArgs : CallGetNode(a)
    \/ \E k \in GetItemKeys : CallGetItem(k)
    \/ CallFeatureNames
    \/ \E i \in DOMAIN nodes : NodeAvailabilityChanges(i)

\* polling
PollNext ==
    \/ \E a \in PollArgs : CallPoll(a)
    \/ \E v \in PollDefaults : SetDefaultPollTime(v)

\* streaming the node values to and from files
StreamNext ==
    \/ \E f \in FileNameArgs : CallWriteStreamable(f)
    \/ \E f \in FileNameArgs : CallReadStreamable(f)
    \/ \E n \in TypeNames : SetNodemapTypeName(n)

----------------------------------------------------------------------------
(* py_save_multithreading: the acquisition thread and the saving thread *)

number_of_buffers == 30

\* BufferFactory.copy(buffer) of the buffer at position `c` of the list
BufferCopy(c) == [copy_of |-> c]

\* queue.Queue: put, get (blocks while the queue is empty) and empty
QueuePut(q, b) == Append(q, b)
QueueFront(q) == Head(q)
QueueRest(q) == Tail(q)
QueueEmpty(q) == q = <<>>

\* the while statement testing the queue alone
FlagIsSet_Mut(v) == FALSE

\* `is_more_buffers.value` as the condition of the while statement
FlagIsSet(v) == v # 0

\* the count left as it is
NextCount_Mut(c) == c

\* count = count + 1
NextCount(c) == c + 1

\* the value the acquisition thread stores when it is done
NoMoreBuffers == 0

\* writer.save(buffer, pattern=".../image_{count}.jpg")
WriterSave(c, b) == [index |-> c, buffer |-> b]

NoBuffer == [copy_of |-> -1]

\* ---- get_multiple_image_buffers ----

\* device.start_stream(number_of_buffers)
AStartStream ==
    /\ apc = "start_stream"
    /\ apc' = "get_buffer"
    /\ UNCHANGED <<acount, mpc, buffer_queue, is_more_buffers, buffer, count,
                   queued, saved>>

\* buffers = device.get_buffer(number_of_buffers), then the for loop begins
AGetBuffer ==
    /\ apc = "get_buffer"
    /\ apc' = IF number_of_buffers > 0 THEN "put" ELSE "requeue"
    /\ acount' = 0
    /\ UNCHANGED <<mpc, buffer_queue, is_more_buffers, buffer, count,
                   queued, saved>>

\* device.get_buffer raises (the device delivers no buffers in time): the
\* thread ends with the exception
AGetBufferRaises ==
    /\ apc = "get_buffer"
    /\ apc' = "raised"
    /\ UNCHANGED <<acount, mpc, buffer_queue, is_more_buffers, buffer, count,
                   queued, saved>>

\* buffer_queue.put(BufferFactory.copy(buffer))
APut ==
    /\ apc = "put"
    /\ buffer_queue' = QueuePut(buffer_queue, BufferCopy(acount))
    /\ queued' = Append(queued, BufferCopy(acount))
    /\ apc' = "sleep"
    /\ UNCHANGED <<acount, mpc, is_more_buffers, buffer, count, saved>>

\* time.sleep(0.1), then the next iteration or the end of the loop
ASleep ==
    /\ apc = "sleep"
    /\ acount' = acount + 1
    /\ apc' = IF acount + 1 < number_of_buffers THEN "put" ELSE "requeue"
    /\ UNCHANGED <<mpc, buffer_queue, is_more_buffers, buffer, count,
                   queued, saved>>

\* device.requeue_buffer(buffers)
ARequeue ==
    /\ apc = "requeue"
    /\ apc' = "stop_stream"
    /\ UNCHANGED <<acount, mpc, buffer_queue, is_more_buffers, buffer, count,
                   queued, saved>>

\* device.stop_stream()
AStopStream ==
    /\ apc = "stop_stream"
    /\ apc' = "set_flag"
    /\ UNCHANGED <<acount, mpc, buffer_queue, is_more_buffers, buffer, count,
                   queued, saved>>

\* is_more_buffers.value = 0
ASetFlag ==
    /\ apc = "set_flag"
    /\ is_more_buffers' = NoMoreBuffers
    /\ apc' = "done"
    /\ UNCHANGED <<acount, mpc, buffer_queue, buffer, count, queued, saved>>

\* ---- save_image_buffers, called by the main thread ----

\* writer = Writer(); count = 0
MWriter ==
    /\ mpc = "writer"
    /\ count' = 0
    /\ mpc' = "while_flag"
    /\ UNCHANGED <<apc, acount, buffer_queue, is_more_buffers, buffer,
                   queued, saved>>

\* while is_more_buffers.value or ...: the left operand
MWhileFlag ==
    /\ mpc = "while_flag"
    /\ mpc' = IF FlagIsSet(is_more_buffers) THEN "inner" ELSE "while_empty"
    /\ UNCHANGED <<apc, acount, buffer_queue, is_more_buffers, buffer, count,
                   queued, saved>>

\* while ... or not buffer_queue.empty(): the right operand
MWhileEmpty ==
    /\ mpc = "while_empty"
    /\ mpc' = IF ~QueueEmpty(buffer_queue) THEN "inner" ELSE "returned"
    /\ UNCHANGED <<apc, acount, buffer_queue, is_more_buffers, buffer, count,
                   queued, saved>>

\* while(not buffer_queue.empty())
MInner ==
    /\ mpc = "inner"
    /\ mpc' = IF ~QueueEmpty(buffer_queue) THEN "get" ELSE "sleep"
    /\ UNCHANGED <<apc, acount, buffer_queue, is_more_buffers, buffer, count,
                   queued, saved>>

\* buffer = buffer_queue.get()
MGet ==
    /\ mpc = "get"
    /\ ~QueueEmpty(buffer_queue)
    /\ buffer' = QueueFront(buffer_queue)
    /\ buffer_queue' = QueueRest(buffer_queue)
    /\ mpc' = "save"
    /\ UNCHANGED <<apc, acount, is_more_buffers, count, queued, saved>>

\* writer.save(buffer, ...image_{count}.jpg); count = count + 1
MSave ==
    /\ mpc = "save"
    /\ saved' = Append(saved, WriterSave(count, buffer))
    /\ count' = NextCount(count)
    /\ mpc' = "inner"
    /\ UNCHANGED <<apc, acount, buffer_queue, is_more_buffers, buffer,
                   queued>>

\* print("Queue empty, waiting 1s"); time.sleep(1)
MSleep ==
    /\ mpc = "sleep"
    /\ mpc' = "while_flag"
    /\ UNCHANGED <<apc, acount, buffer_queue, is_more_buffers, buffer, count,
                   queued, saved>>

\* ---- example_entry_point after save_image_buffers returns ----

\* acquisition_thread.join()
MJoin ==
    /\ mpc = "returned"
    /\ apc \in {"done", "raised"}
    /\ mpc' = "destroy_device"
    /\ UNCHANGED <<apc, acount, buffer_queue, is_more_buffers, buffer, count,
                   queued, saved>>

\* system.destroy_device()
MDestroyDevice ==
    /\ mpc = "destroy_device"
    /\ mpc' = "finished"
    /\ UNCHANGED <<apc, acount, buffer_queue, is_more_buffers, buffer, count,
                   queued, saved>>

Acquisition ==
    \/ AStartStream
    \/ AGetBuffer
    \/ AGetBufferRaises
    \/ APut
    \/ ASleep
    \/ ARequeue
    \/ AStopStream
    \/ ASetFlag

Saving ==
    \/ MWriter
    \/ MWhileFlag
    \/ MWhileEmpty
    \/ MInner
    \/ MGet
    \/ MSave
    \/ MSleep
    \/ MJoin
    \/ MDestroyDevice

\* the state when acquisition_thread.start() has returned
MtInit ==
    /\ apc = "start_stream"
    /\ acount = 0
    /\ mpc = "writer"
    /\ buffer_queue = <<>>
    /\ is_more_buffers = 1
    /\ buffer = NoBuffer
    /\ count = 0
    /\ queued = <<>>
    /\ saved = <<>>

----------------------------------------------------------------------------
(* py_enumeration_handlingdisconnections: the enumeration thread and the  *)
(* acquisition thread, which is the main thread                            *)

MAX_IMAGES == 100
MaxHold == 4       \* times the enumeration thread re-acquires cv

\* serial numbers of the cameras that may be on the network
SerialA == 1
SerialB == 2
AllSerials == {SerialA, SerialB}

Threads == {"main", "enum"}

\* ---- threading.Condition(), whose lock is an RLock ----

CvAcquire(t) ==
    /\ cv_owner \in {"none", t}
    /\ cv_owner' = t
    /\ cv_count' = IF cv_owner = t THEN cv_count + 1 ELSE 1
    /\ UNCHANGED <<cv_waiters, cv_saved>>

CvRelease(t) ==
    /\ cv_owner = t
    /\ cv_count' = cv_count - 1
    /\ cv_owner' = IF cv_count = 1 THEN "none" ELSE t
    /\ UNCHANGED <<cv_waiters, cv_saved>>

\* the waiters after notify(): one waiting thread, if any, is woken
Notified(w) ==
    IF \E u \in Threads : w[u] = "waiting"
    THEN [w EXCEPT ![CHOOSE u \in Threads : w[u] = "waiting"] = "notified"]
    ELSE w

CvNotify(t) ==
    /\ cv_owner = t
    /\ cv_waiters' = Notified(cv_waiters)
    /\ UNCHANGED <<cv_owner, cv_count, cv_saved>>

\* wait(): the lock is released whatever its count, and the thread sleeps
CvWaitBegin(t) ==
    /\ cv_owner = t
    /\ cv_saved' = [cv_saved EXCEPT ![t] = cv_count]
    /\ cv_owner' = "none"
    /\ cv_count' = 0
    /\ cv_waiters' = [cv_waiters EXCEPT ![t] = "waiting"]

\* wait() returns: the thread was notified and has the lock back
CvWaitEnd(t) ==
    /\ cv_waiters[t] = "notified"
    /\ cv_owner = "none"
    /\ cv_owner' = t
    /\ cv_count' = cv_saved[t]
    /\ cv_waiters' = [cv_waiters EXCEPT ![t] = "no"]
    /\ UNCHANGED cv_saved

cvVars == <<cv_owner, cv_count, cv_waiters, cv_saved>>

\* ---- arena_api.system and the device ----

\* system.destroy_device(): every created device is destroyed
DestroyDevice(d) == [d EXCEPT !.alive = FALSE]

\* system.device_infos: one info per camera on the network
DeviceInfos(conn) == conn

\* the search for g_device_serial among the device infos
FoundIn(device_infos, serial) == serial \in device_infos

\* system.create_device(): one device per camera on the network
CreateDevice(conn) == conn

\* the loop over the created devices: g_device afterwards
StoreMatching(d, devices, serial) ==
    IF serial \in devices THEN [serial |-> serial, alive |-> TRUE] ELSE d

\* the device object exists and its camera is on the network
DeviceUsable(d, conn) == d.alive /\ d.serial \in conn

\* ---- enumeration_thread ----

\* cv.acquire()
EnumAcquire ==
    /\ epc = "e_acquire"
    /\ CvAcquire("enum")
    /\ epc' = "e_while"
    /\ UNCHANGED <<g_device, g_is_running, g_device_serial, found_device,
                   qpc, num_images, connected, since_wait, resumed>>

\* while(g_is_running)
EnumWhile ==
    /\ epc = "e_while"
    /\ epc' = IF g_is_running THEN "e_if_found" ELSE "e_done"
    /\ UNCHANGED <<g_device, g_is_running, g_device_serial, cvVars,
                   found_device, qpc, num_images, connected, since_wait,
                   resumed>>

\* if(found_device)
EnumIfFound ==
    /\ epc = "e_if_found"
    /\ epc' = IF found_device THEN "e_notify" ELSE "e_destroy"
    /\ UNCHANGED <<g_device, g_is_running, g_device_serial, cvVars,
                   found_device, qpc, num_images, connected, since_wait,
                   resumed>>

\* print("\tSignalling acquisition thread"); cv.notify()
EnumNotify ==
    /\ epc = "e_notify"
    /\ CvNotify("enum")
    /\ epc' = "e_wait"
    /\ UNCHANGED <<g_device, g_is_running, g_device_serial, found_device,
                   qpc, num_images, connected, since_wait, resumed>>

\* cv.wait(): the enumeration thread goes to sleep
EnumWaitBegin ==
    /\ epc = "e_wait"
    /\ CvWaitBegin("enum")
    /\ epc' = "e_waiting"
    /\ UNCHANGED <<g_device, g_is_running, g_device_serial, found_device,
                   qpc, num_images, connected, since_wait, resumed>>

\* cv.wait() returns; print("Enumeration thread active")
EnumWaitEnd ==
    /\ epc = "e_waiting"
    /\ CvWaitEnd("enum")
    /\ epc' = "e_destroy"
    /\ UNCHANGED <<g_device, g_is_running, g_device_serial, found_device,
                   qpc, num_images, connected, since_wait, resumed>>

\* system.destroy_device()
EnumDestroy ==
    /\ epc = "e_destroy"
    /\ g_device' = DestroyDevice(g_device)
    /\ since_wait' = "destroyed"
    /\ epc' = "e_acquire_again"
    /\ UNCHANGED <<g_is_running, g_device_serial, cvVars, found_device, qpc,
                   num_images, connected, resumed>>

\* cv.acquire() by the thread that may hold cv already
EnumAcquireAgain ==
    /\ epc = "e_acquire_again"
    /\ cv_count < MaxHold
    /\ CvAcquire("enum")
    /\ epc' = "e_check"
    /\ UNCHANGED <<g_device, g_is_running, g_device_serial, found_device,
                   qpc, num_images, connected, since_wait, resumed>>

\* if(g_is_running): found_device = False
EnumCheck ==
    /\ epc = "e_check"
    /\ IF g_is_running
       THEN found_device' = FALSE /\ epc' = "e_infos"
       ELSE found_device' = found_device /\ epc' = "e_terminate"
    /\ UNCHANGED <<g_device, g_is_running, g_device_serial, cvVars, qpc,
                   num_images, connected, since_wait, resumed>>

\* device_infos = system.device_infos and the search for the serial number
EnumInfos ==
    /\ epc = "e_infos"
    /\ found_device' = FoundIn(DeviceInfos(connected), g_device_serial)
    /\ epc' = "e_branch"
    /\ UNCHANGED <<g_device, g_is_running, g_device_serial, cvVars, qpc,
                   num_images, connected, since_wait, resumed>>

\* if(found_device) ... else
EnumBranch ==
    /\ epc = "e_branch"
    /\ epc' = IF found_device THEN "e_create" ELSE "e_sleep"
    /\ UNCHANGED <<g_device, g_is_running, g_device_serial, cvVars,
                   found_device, qpc, num_images, connected, since_wait,
                   resumed>>

\* devices = system.create_device() and the loop storing the device whose
\* serial number is g_device_serial
EnumCreate ==
    /\ epc = "e_create"
    /\ g_device' = StoreMatching(g_device, CreateDevice(connected),
                                 g_device_serial)
    /\ since_wait' = IF g_device_serial \in CreateDevice(connected)
                        /\ since_wait = "destroyed"
                     THEN "stored" ELSE since_wait
    /\ epc' = "e_while"
    /\ UNCHANGED <<g_is_running, g_device_serial, cvVars, found_device, qpc,
                   num_images, connected, resumed>>

\* print("Failed to find device"); time.sleep(wait_between_searches_time)
EnumSleep ==
    /\ epc = "e_sleep"
    /\ epc' = "e_while"
    /\ UNCHANGED <<g_device, g_is_running, g_device_serial, cvVars,
                   found_device, qpc, num_images, connected, since_wait,
                   resumed>>

\* system.destroy_device(); cv.release(); continue
EnumTerminate ==
    /\ epc = "e_terminate"
    /\ g_device' = DestroyDevice(g_device)
    /\ since_wait' = "destroyed"
    /\ CvRelease("enum")
    /\ epc' = "e_while"
    /\ UNCHANGED <<g_is_running, g_device_serial, found_device, qpc,
                   num_images, connected, resumed>>

EnumerationThread ==
    \/ EnumAcquire
    \/ EnumWhile
    \/ EnumIfFound
    \/ EnumNotify
    \/ EnumWaitBegin
    \/ EnumWaitEnd
    \/ EnumDestroy
    \/ EnumAcquireAgain
    \/ EnumCheck
    \/ EnumInfos
    \/ EnumBranch
    \/ EnumCreate
    \/ EnumSleep
    \/ EnumTerminate

\* ---- acquisition_thread, run by the main thread ----

\* the node-map configuration; num_images = 0; g_is_running = True
AcqConfig ==
    /\ qpc = "a_config"
    /\ num_images' = 0
    /\ g_is_running' = TRUE
    /\ qpc' = "a_acquire"
    /\ UNCHANGED <<g_device, g_device_serial, cvVars, epc, found_device,
                   connected, since_wait, resumed>>

\* cv.acquire()
AcqAcquire ==
    /\ qpc = "a_acquire"
    /\ CvAcquire("main")
    /\ qpc' = "a_while"
    /\ UNCHANGED <<g_device, g_is_running, g_device_serial, epc,
                   found_device, num_images, connected, since_wait, resumed>>

\* while(g_is_running)
AcqWhile ==
    /\ qpc = "a_while"
    /\ qpc' = IF g_is_running THEN "a_start_stream" ELSE "a_join"
    /\ UNCHANGED <<g_device, g_is_running, g_device_serial, cvVars, epc,
                   found_device, num_images, connected, since_wait, resumed>>

\* g_device.start_stream(): it returns, raises TimeoutError, or raises
\* another exception, which ends the thread
AcqStartStream ==
    /\ qpc = "a_start_stream"
    /\ \/ g_device.alive /\ qpc' = "a_inner"
       \/ ~DeviceUsable(g_device, connected) /\ qpc' = "a_except"
       \/ ~DeviceUsable(g_device, connected) /\ qpc' = "a_raised"
    /\ resumed' = FALSE
    /\ UNCHANGED <<g_device, g_is_running, g_device_serial, cvVars, epc,
                   found_device, num_images, connected, since_wait>>

\* while(g_is_running and num_images <= MAX_IMAGES)
AcqInner ==
    /\ qpc = "a_inner"
    /\ qpc' = IF g_is_running /\ num_images <= MAX_IMAGES
              THEN "a_get_buffer" ELSE "a_if_done"
    /\ UNCHANGED <<g_device, g_is_running, g_device_serial, cvVars, epc,
                   found_device, num_images, connected, since_wait, resumed>>

\* buffer = g_device.get_buffer(timeout=1000); num_images = num_images + 1;
\* g_device.requeue_buffer(buffer)
AcqGetBuffer ==
    /\ qpc = "a_get_buffer"
    /\ DeviceUsable(g_device, connected)
    /\ num_images' = num_images + 1
    /\ qpc' = "a_inner"
    /\ UNCHANGED <<g_device, g_is_running, g_device_serial, cvVars, epc,
                   found_device, connected, since_wait, resumed>>

\* get_buffer raises TimeoutError: no image within the timeout
AcqGetBufferTimeout ==
    /\ qpc = "a_get_buffer"
    /\ ~DeviceUsable(g_device, connected)
    /\ qpc' = "a_except"
    /\ UNCHANGED <<g_device, g_is_running, g_device_serial, cvVars, epc,
                   found_device, num_images, connected, since_wait, resumed>>

\* except TimeoutError: print("Device disconnected"); cv.notify()
AcqExcept ==
    /\ qpc = "a_except"
    /\ CvNotify("main")
    /\ qpc' = "a_wait"
    /\ UNCHANGED <<g_device, g_is_running, g_device_serial, epc,
                   found_device, num_images, connected, since_wait, resumed>>

\* cv.wait(): the acquisition thread goes to sleep
AcqWaitBegin ==
    /\ qpc = "a_wait"
    /\ CvWaitBegin("main")
    /\ since_wait' = "none"
    /\ qpc' = "a_waiting"
    /\ UNCHANGED <<g_device, g_is_running, g_device_serial, epc,
                   found_device, num_images, connected, resumed>>

\* cv.wait() returns
AcqWaitEnd ==
    /\ qpc = "a_waiting"
    /\ CvWaitEnd("main")
    /\ resumed' = TRUE
    /\ qpc' = "a_active"
    /\ UNCHANGED <<g_device, g_is_running, g_device_serial, epc,
                   found_device, num_images, connected, since_wait>>

\* print("Acquisition thread active")
AcqActive ==
    /\ qpc = "a_active"
    /\ qpc' = "a_if_done"
    /\ UNCHANGED <<g_device, g_is_running, g_device_serial, cvVars, epc,
                   found_device, num_images, connected, since_wait, resumed>>

\* if(num_images > MAX_IMAGES)
AcqIfDone ==
    /\ qpc = "a_if_done"
    /\ qpc' = IF num_images > MAX_IMAGES THEN "a_complete" ELSE "a_while"
    /\ UNCHANGED <<g_device, g_is_running, g_device_serial, cvVars, epc,
                   found_device, num_images, connected, since_wait, resumed>>

\* print("Acquisition completed"); g_is_running = False;
\* g_device.stop_stream()
AcqComplete ==
    /\ qpc = "a_complete"
    /\ g_is_running' = FALSE
    /\ qpc' = "a_notify"
    /\ UNCHANGED <<g_device, g_device_serial, cvVars, epc, found_device,
                   num_images, connected, since_wait, resumed>>

\* cv.notify()
AcqNotify ==
    /\ qpc = "a_notify"
    /\ CvNotify("main")
    /\ qpc' = "a_release"
    /\ UNCHANGED <<g_device, g_is_running, g_device_serial, epc,
                   found_device, num_images, connected, since_wait, resumed>>

\* cv.release()
AcqRelease ==
    /\ qpc = "a_release"
    /\ CvRelease("main")
    /\ qpc' = "a_while"
    /\ UNCHANGED <<g_device, g_is_running, g_device_serial, epc,
                   found_device, num_images, connected, since_wait, resumed>>

\* example_entry_point: threads[0].join()
AcqJoin ==
    /\ qpc = "a_join"
    /\ epc = "e_done"
    /\ qpc' = "a_finished"
    /\ UNCHANGED <<g_device, g_is_running, g_device_serial, cvVars, epc,
                   found_device, num_images, connected, since_wait, resumed>>

AcquisitionThread ==
    \/ AcqConfig
    \/ AcqAcquire
    \/ AcqWhile
    \/ AcqStartStream
    \/ AcqInner
    \/ AcqGetBuffer
    \/ AcqGetBufferTimeout
    \/ AcqExcept
    \/ AcqWaitBegin
    \/ AcqWaitEnd
    \/ AcqActive
    \/ AcqIfDone
    \/ AcqComplete
    \/ AcqNotify
    \/ AcqRelease
    \/ AcqJoin

\* ---- the network ----

\* a camera is unplugged
Unplug(s) ==
    /\ s \in connected
    /\ connected' = connected \ {s}
    /\ UNCHANGED <<g_device, g_is_running, g_device_serial, cvVars, epc,
                   found_device, qpc, num_images, since_wait, resumed>>

\* a camera is plugged in
Plug(s) ==
    /\ s \notin connected
    /\ connected' = connected \cup {s}
    /\ UNCHANGED <<g_device, g_is_running, g_device_serial, cvVars, epc,
                   found_device, qpc, num_images, since_wait, resumed>>

Network ==
    \/ \E s \in AllSerials : Unplug(s)
    \/ \E s \in AllSerials : Plug(s)

\* the state when threads[0].start() has returned: g_device is devices[0],
\* g_device_serial its serial number, g_is_running True, cv not held
EnInit ==
    /\ g_device = [serial |-> SerialA, alive |-> TRUE]
    /\ g_device_serial = SerialA
    /\ g_is_running = TRUE
    /\ cv_owner = "none"
    /\ cv_count = 0
    /\ cv_waiters = [t \in Threads |-> "no"]
    /\ cv_saved = [t \in Threads |-> 0]
    /\ epc = "e_acquire"
    /\ found_device = TRUE
    /\ qpc = "a_config"
    /\ num_images = 0
    /\ connected = AllSerials
    /\ since_wait = "none"
    /\ resumed = FALSE

----------------------------------------------------------------------------
(* Specifications *)

\* the Nodemap object: node lookup and the feature list
Init == FsInit /\ NmInit /\ MtInit /\ EnInit
Next == NodesNext /\ UNCHANGED <<fsVars, mtVars, enVars>>
Spec == Init /\ [][Next]_vars

\* the Nodemap object: polling
InitPoll == FsInit /\ NmInit /\ nodes = <<>> /\ MtInit /\ EnInit
NextPoll == PollNext /\ UNCHANGED <<fsVars, mtVars, enVars>>
SpecPoll == InitPoll /\ [][NextPoll]_vars

\* the Nodemap object: streaming node values to and from files
NextStream == StreamNext /\ UNCHANGED <<fsVars, mtVars, enVars>>
SpecStream == Init /\ [][NextStream]_vars

\* _xFeaturestream objects
NextFS == FsNext /\ UNCHANGED <<nmVars, mtVars, enVars>>
InitFS == FsInit /\ NmInit /\ nodes = <<>> /\ MtInit /\ EnInit
SpecFS == InitFS /\ [][NextFS]_vars

\* py_save_multithreading
NextSave == (Acquisition \/ Saving) /\ UNCHANGED <<fsVars, nmVars, enVars>>
InitSave == FsInit /\ NmInit /\ nodes = <<>> /\ MtInit /\ EnInit
SpecSave == InitSave /\ [][NextSave]_vars

\* both threads are scheduled again and again by the operating system
FairSpecSave ==
    /\ SpecSave
    /\ WF_vars(Acquisition /\ UNCHANGED <<fsVars, nmVars, enVars>>)
    /\ WF_vars(Saving /\ UNCHANGED <<fsVars, nmVars, enVars>>)

\* py_enumeration_handlingdisconnections
NextEnum ==
    (EnumerationThread \/ AcquisitionThread \/ Network)
        /\ UNCHANGED <<fsVars, nmVars, mtVars>>
InitEnum == FsInit /\ NmInit /\ nodes = <<>> /\ MtInit /\ EnInit
SpecEnum == InitEnum /\ [][NextEnum]_vars

----------------------------------------------------------------------------
(* Properties of the _xFeaturestream forwarding class *)

IsOpCall(e) == e.op \notin {"__init__", "__del__"}
IsOpNative(c) ==
    c.fn \notin {"acFeatureStreamCreate", "acFeatureStreamDestroy"}
WrapperOps == SelectSeq(wrapperLog, IsOpCall)
NativeOps == SelectSeq(fsNativeLog, IsOpNative)
IsCreate(c) == c.fn = "acFeatureStreamCreate"

\* the handle the native library returned to the o-th object's constructor
CreatedHandle(o) == SelectSeq(fsNativeLog, IsCreate)[o].arg[1]

\* the native function named like the wrapper operation
SameName(op) ==
    CASE op = "xFeatureStreamSelect" -> "acFeatureStreamSelect"
      [] op = "xFeatureStreamWrite" -> "acFeatureStreamWrite"
      [] op = "xFeatureStreamWriteFileName" -> "acFeatureStreamWriteFileName"
      [] op = "xFeatureStreamRead" -> "acFeatureStreamRead"
      [] op = "xFeatureStreamReadFileName" -> "acFeatureStreamReadFileName"

\* C1: the native calls other than create and destroy are, in order, the
\* wrapper operations called: one native call per operation, to the native
\* function of the same name, on the handle the object's constructor got.
C1_ForwardsOneToOne ==
    /\ Len(NativeOps) = Len(WrapperOps)
    /\ \A i \in DOMAIN WrapperOps :
          /\ NativeOps[i].fn = SameName(WrapperOps[i].op)
          /\ NativeOps[i].h = CreatedHandle(WrapperOps[i].obj)

\* two operations on two different objects have been forwarded
C1_Witness ==
    /\ Len(WrapperOps) >= 2
    /\ WrapperOps[1].obj # WrapperOps[2].obj
    /\ WrapperOps[1].op = "xFeatureStreamRead"
    /\ Len(NativeOps) >= 2

----------------------------------------------------------------------------
(* Properties of Nodemap.get_node and Nodemap.__getitem__ *)

IsListOrTuple(v) == v.type \in {"list", "tuple"}
AllStr(xs) == \A i \in DOMAIN xs : xs[i].type = "str"
NameExists(n) == \E i \in DOMAIN nodes : nodes[i].name = n
AllExist(xs) == \A i \in DOMAIN xs : NameExists(xs[i].val)
RequestedNames(xs) == {xs[i].val : i \in DOMAIN xs}
IsNodeNamed(n, name) ==
    /\ n.name = name
    /\ n.hxnode \in DOMAIN nodes
    /\ nodes[n.hxnode].name = name

\* C2: get_node on a list or tuple of names that all exist returns a dict
\* keyed by exactly the requested names, each key holding the node of that
\* name; on a single existing str name it returns that node, not a dict.
C2_GetNodeReturns ==
    lastCall.op = "get_node" =>
        /\ (IsListOrTuple(lastCall.arg) /\ AllStr(lastCall.arg.items)
              /\ AllExist(lastCall.arg.items)) =>
                /\ lastCall.raise = ""
                /\ lastCall.shape = "dict"
                /\ DOMAIN lastCall.dict = RequestedNames(lastCall.arg.items)
                /\ \A k \in DOMAIN lastCall.dict :
                       IsNodeNamed(lastCall.dict[k], k)
        /\ (lastCall.arg.type = "str" /\ NameExists(lastCall.arg.val)) =>
                /\ lastCall.raise = ""
                /\ lastCall.shape = "node"
                /\ IsNodeNamed(lastCall.node, lastCall.arg.val)

\* a dict of two nodes has been returned for a list of two names
C2_Witness ==
    /\ lastCall.op = "get_node"
    /\ lastCall.arg.type = "list"
    /\ lastCall.shape = "dict"
    /\ Cardinality(DOMAIN lastCall.dict) = 2

\* C3: get_node on a list or tuple with a non-str element or a name the node
\* map does not have raises ValueError and returns nothing; with a non-str
\* element no lookup reaches the native node map.
C3_AllOrNothing ==
    (lastCall.op = "get_node" /\ IsListOrTuple(lastCall.arg)) =>
        /\ (~AllStr(lastCall.arg.items) \/ ~AllExist(lastCall.arg.items)) =>
                /\ lastCall.raise = "ValueError"
                /\ lastCall.shape = "none"
                /\ lastCall.dict = EmptyDict
        /\ ~AllStr(lastCall.arg.items) => nativeLog = <<>>

\* a list whose first element is an existing name and whose second is not a
\* str has been rejected
C3_Witness ==
    /\ lastCall.op = "get_node"
    /\ IsListOrTuple(lastCall.arg)
    /\ Len(lastCall.arg.items) = 2
    /\ lastCall.arg.items[1].type = "str"
    /\ NameExists(lastCall.arg.items[1].val)
    /\ lastCall.arg.items[2].type # "str"
    /\ lastCall.raise = "ValueError"

\* C4: get_node raises TypeError when nodes_names is neither a list, a tuple
\* nor a str.
C4_BadTypeRaisesTypeError ==
    (lastCall.op = "get_node"
       /\ lastCall.arg.type \notin {"list", "tuple", "str"}) =>
        lastCall.raise = "TypeError"

\* C5: nodemap[key] with a str key issues the native calls of get_node(key)
\* and returns the same node, or raises KeyError where get_node raises
\* ValueError; a key that is not a str raises TypeError with no native call.
C5_SubscriptLikeGetNode ==
    lastCall.op = "__getitem__" =>
        IF lastCall.arg.type = "str"
        THEN LET g == get_node(nodes, lastCall.arg)
             IN  /\ nativeLog = g.log
                 /\ nativeLog[1] = NmCall("xNodeMapGetNode", lastCall.arg.val)
                 /\ g.raise \in {"", "ValueError"}
                 /\ g.raise = "" =>
                       /\ lastCall.raise = ""
                       /\ lastCall.node = g.node
                       /\ IsNodeNamed(lastCall.node, lastCall.arg.val)
                 /\ g.raise = "ValueError" =>
                       /\ lastCall.raise = "KeyError"
                       /\ ~NameExists(lastCall.arg.val)
        ELSE /\ lastCall.raise = "TypeError"
             /\ nativeLog = <<>>

\* the subscript has failed with KeyError for a name the node map lacks
C5_Witness ==
    /\ lastCall.op = "__getitem__"
    /\ lastCall.arg.type = "str"
    /\ lastCall.raise = "KeyError"
    /\ nodes # <<>>

----------------------------------------------------------------------------
(* Properties of Nodemap.poll *)

\* the value poll checks: the argument, or the default when it is None
PolledValue ==
    IF lastCall.arg = PyNone THEN DEFAULT_POLL_TIME_MILLISEC ELSE lastCall.arg
IsInt(v) == v.type \in {"int", "bool"}

\* C6: poll reaches xNodeMapPoll only with a positive int; an int that is
\* zero or negative raises ValueError, a value that is not an int raises
\* TypeError, both without a native call; None stands for the current
\* DEFAULT_POLL_TIME_MILLISEC, which is 1000 until it is assigned.
C6_PollChecks ==
    /\ lastCall.op = "poll" =>
        /\ (IsInt(PolledValue) /\ PolledValue.val[1] > 0) =>
              /\ lastCall.raise = ""
              /\ nativeLog = <<NmCall("xNodeMapPoll", PolledValue.val)>>
        /\ (IsInt(PolledValue) /\ PolledValue.val[1] <= 0) =>
              /\ lastCall.raise = "ValueError"
              /\ nativeLog = <<>>
        /\ ~IsInt(PolledValue) =>
              /\ lastCall.raise = "TypeError"
              /\ nativeLog = <<>>
    /\ lastCall.op = "" => DEFAULT_POLL_TIME_MILLISEC = PyInt(1000)

\* poll(None) has been refused with ValueError after the default was set to 0
C6_Witness ==
    /\ lastCall.op = "poll"
    /\ lastCall.arg = PyNone
    /\ DEFAULT_POLL_TIME_MILLISEC = PyInt(0)
    /\ lastCall.raise = "ValueError"
    /\ nativeLog = <<>>

----------------------------------------------------------------------------
(* Properties of the streamable-values calls *)

BadWriteArg(v) == v # PyNone /\ v.type # "str"
BadReadArg(v) == v.type # "str"

\* C7: a write with a file name that is neither None nor a str, and a read
\* with a file name that is not a str, raise TypeError, issue no native call
\* (no feature stream is created) and leave the node map and the files as
\* they were.
C7_StreamableTypeErrors ==
    [][ ( \/ /\ lastCall'.op = "write_streamable_node_values_to"
             /\ BadWriteArg(lastCall'.arg)
          \/ /\ lastCall'.op = "read_streamable_node_values_from"
             /\ BadReadArg(lastCall'.arg) )
        => /\ lastCall'.raise = "TypeError"
           /\ nativeLog' = <<>>
           /\ nodes' = nodes
           /\ files' = files ]_vars

\* a read with None as file name has been refused while a file exists
C7_Witness ==
    /\ lastCall.op = "read_streamable_node_values_from"
    /\ lastCall.arg = PyNone
    /\ lastCall.raise = "TypeError"
    /\ files # {}

----------------------------------------------------------------------------
(* Properties of Nodemap.feature_names *)

FeatureNodes == {i \in DOMAIN nodes : nodes[i].is_feature}

\* C8: feature_names returns, in ascending order, exactly the names of the
\* nodes of the native node map that are features when it is read.
C8_FeatureNamesCurrent ==
    lastCall.op = "feature_names" =>
        /\ lastCall.raise = ""
        /\ Len(lastCall.names) = Cardinality(FeatureNodes)
        /\ Range(lastCall.names) = {nodes[i].name : i \in FeatureNodes}
        /\ \A i, j \in DOMAIN lastCall.names :
               i < j => ~StrLess(lastCall.names[j], lastCall.names[i])
        /\ nativeLog[1] = NmCall("xNodeMapGetNumNodes", <<>>)
        /\ Len(nativeLog) = 1 + Len(nodes)

\* the list was read while one of the nodes was not a feature and the
\* feature nodes stood in the node map in descending order of name
C8_Witness ==
    /\ lastCall.op = "feature_names"
    /\ Len(lastCall.names) < Len(nodes)
    /\ \E i, j \in FeatureNodes :
           i < j /\ StrLess(nodes[j].name, nodes[i].name)

----------------------------------------------------------------------------
(* Properties of py_save_multithreading *)

SaverReturned == mpc \in {"returned", "destroy_device", "finished"}

\* C9: the saved images are the queued buffer copies, in queue order, the
\* i-th under file index i - 1; when save_image_buffers has returned every
\* queued copy has been saved, all thirty when the acquisition completed.
C9_SavedInOrderOnce ==
    /\ Len(saved) <= Len(queued)
    /\ \A i \in DOMAIN queued : queued[i] = BufferCopy(i - 1)
    /\ \A i \in DOMAIN saved :
           saved[i] = [index |-> i - 1, buffer |-> queued[i]]
    /\ SaverReturned => Len(saved) = Len(queued)
    /\ (SaverReturned /\ apc = "done") => Len(saved) = number_of_buffers

\* the example has finished with image_29 saved
C9_Witness ==
    /\ mpc = "finished"
    /\ Len(saved) = number_of_buffers
    /\ saved[number_of_buffers].index = number_of_buffers - 1

\* C10: once the acquisition thread has run to completion save_image_buffers
\* eventually returns; whenever it has returned, is_more_buffers is 0, the
\* queue is empty and the acquisition thread is past its last put.
C10_SaverReturns ==
    /\ (apc = "done") ~> SaverReturned
    /\ [](SaverReturned =>
            /\ is_more_buffers = 0
            /\ QueueEmpty(buffer_queue)
            /\ apc = "done")

\* save_image_buffers has just returned after the acquisition completed
C10_Witness ==
    /\ mpc = "returned"
    /\ apc = "done"
    /\ is_more_buffers = 0
    /\ buffer_queue = <<>>
    /\ Len(queued) = number_of_buffers

----------------------------------------------------------------------------
(* Properties of py_enumeration_handlingdisconnections *)

\* C11: when the acquisition thread has returned from cv.wait() after a
\* TimeoutError, and until it has called start_stream again, the
\* enumeration thread has, since that wait began, destroyed the device and
\* then stored in g_device a re-created device whose serial number is
\* g_device_serial.
C11_ResumesAfterReconnect ==
    resumed =>
        /\ since_wait = "stored"
        /\ g_device.alive
        /\ g_device.serial = g_device_serial

====
